---- MODULE Spec2Model ----
(***************************************************************************)
(* Verification model of couchbase-rs:                                     *)
(*   couchstore/src/btree_modify.rs  (bulk B-tree modify, tree driver)     *)
(*   couchstore/src/file_read.rs     (block codec and chunk codec)         *)
(*   ep_engine/src/kv_store.rs       (start-up of the vbucket file store)  *)
(*                                                                         *)
(* Four specifications share the variables of this module:                 *)
(*   Spec        one modify_btree call, stepped through modify_node        *)
(*   SpecDriver  the root resolution of modify_btree (lines 87-98) applied *)
(*               to every root result of the CouchfileModifyResult type    *)
(*   SpecRead    one chunk read (pread_bin / pread_compressed /            *)
(*               pread_header) stepped through its physical reads          *)
(*   SpecKv      one CouchKVStore::new over a data directory, stepped      *)
(*               through the revisions and vbuckets it visits              *)
(***************************************************************************)
EXTENDS Integers, Sequences, FiniteSets, TLC

VARIABLES
    pc,            \* position of the modify_btree call
    req,           \* req.actions, the action batch
    root,          \* the root argument of modify_btree
    node_buf,      \* modify_node: decompressed node body
    cursor,        \* modify_node: Cursor position in node_buf
    start,         \* modify_node: index of the next action
    end,           \* modify_node: end of the action slice
    local_result,  \* modify_node: CouchfileModifyResult (root_result in the driver)
    ret,           \* modify_btree: the returned root
    panic_msg,     \* the panic that ended the call, if any
    seq_actions,   \* UpdateIdContext.seq_actions, filled by on_fetch
    file,          \* TreeFile.file: the bytes of the underlying store
    kind,          \* which chunk read runs: "bin", "compressed" or "header"
    max_header_size, \* pread_bin_internal: the optional header bound
    pos,           \* pread_bin_internal: pos, the physical read position
    info,          \* pread_bin_internal: the 8-byte chunk prefix
    buf,           \* pread_bin_internal: the body buffer
    off,           \* read_skipping_prefixes: bytes of the buffer filled so far
    short,         \* read_skipping_prefixes: a physical read returned 0 bytes
    chunk_len,     \* pread_bin_internal: chunk_len
    crc32,         \* pread_bin_internal: the stored CRC, as <<high 16 bits, low 16 bits>>
    rpc,           \* position of the chunk read
    rmsg,          \* the panic that ended the chunk read, if any
    rret,          \* the bytes the chunk read returned
    chunk,         \* how the file was made: the chunk written and the damage done to it
    config,        \* CouchKVStoreConfig: max_vbuckets, max_shards, shard_id
    dir,           \* the names of the files in the directory config.db_name
    found,         \* the map of get_vbucket_revision, as <<vbid, revision>> pairs
    order,         \* populate_rev_map_and_remove_stale_files: the pairs visited, in order
    keys_left,     \* new / initialise: the keys of the map still to visit
    db_file_rev_map,   \* CouchKVStore.db_file_rev_map
    cached_vb_states,  \* CouchKVStore.cached_vb_states
    opened,        \* the names of the files open_db has opened
    kpc,           \* position of CouchKVStore::new
    kmsg           \* the panic that ended CouchKVStore::new, if any

bvars == <<pc, req, root, node_buf, cursor, start, end, local_result, ret,
           panic_msg, seq_actions>>

rvars == <<file, kind, max_header_size, pos, info, buf, off, short, chunk_len,
           crc32, rpc, rmsg, rret, chunk>>

kvars == <<config, dir, found, order, keys_left, db_file_rev_map,
           cached_vb_states, opened, kpc, kmsg>>

vars == <<bvars, rvars, kvars>>

-----------------------------------------------------------------------------
(* Bounds of the model *)

MaxActions == 4      \* longest action batch
MaxCount == 2        \* largest count of a root result drawn for the driver
MaxPointers == 2     \* most flushed pointers of a root result drawn for the driver

-----------------------------------------------------------------------------
(* Data *)

None == <<>>         \* Option::None
Some(x) == <<x>>     \* Option::Some
Unwrap(o) == o[1]

\* Keys are byte strings, compared byte-lexicographically
Keys == { <<1>>, <<1, 2>>, <<2>>, <<3>>, <<4>> }

Datas == { <<7>>, <<8, 9>> }

RECURSIVE KeyLess(_, _)
KeyLess(a, b) ==
    IF b = <<>> THEN FALSE
    ELSE IF a = <<>> THEN TRUE
    ELSE IF a[1] # b[1] THEN a[1] < b[1]
    ELSE KeyLess(Tail(a), Tail(b))

ActionTypes == { "Fetch", "Remove", "Insert", "FetchInsert" }

\* CouchfileModifyAction
Action(k, d, t) == [key |-> k, data |-> d, action_type |-> t]

\* The actions a caller builds for one key: Fetch and Remove carry no data
ActionsOf(k) ==
    { Action(k, None, "Fetch"), Action(k, None, "Remove") }
    \cup { Action(k, Some(d), "Insert") : d \in Datas }
    \cup { Action(k, Some(<<7>>), "FetchInsert") }

\* The keys of S in ascending order
RECURSIVE SortedKeys(_)
SortedKeys(S) ==
    IF S = {} THEN <<>>
    ELSE LET m == CHOOSE k \in S : \A o \in S \ {k} : KeyLess(k, o)
         IN  <<m>> \o SortedKeys(S \ {m})

\* NodePointer: offset of the node chunk and the opaque reduce value
NodePointer(p, r) == [pointer |-> p, reduce_value |-> r]

\* Node
KvNode(k, d) == [data |-> d, key |-> k, pointer |-> None]
KpNode(k, p) == [data |-> <<>>, key |-> k, pointer |-> p]

\* The node chunks of the file, by offset, as pread_compressed returns them:
\* the first cell is the type tag, the others are the records of the node.
Offsets == { 10, 20, 30, 40, 50, 60 }

pread_compressed(p) ==
    CASE p = 10 -> <<1, KvNode(<<1>>, <<7>>), KvNode(<<2>>, <<7>>), KvNode(<<3>>, <<8, 9>>)>>
      [] p = 20 -> <<1>>
      [] p = 30 -> <<0, KpNode(<<3>>, Some(NodePointer(10, <<10>>)))>>
      [] p = 40 -> <<2>>
      [] p = 50 -> <<>>
      [] OTHER  -> <<1, KvNode(<<4>>, <<7>>)>>

Roots == { None } \cup { Some(NodePointer(p, <<p>>)) : p \in Offsets }

\* CouchfileModifyResult::new
NewResult ==
    [ node_type   |-> "Default",
      values      |-> <<>>,
      node_length |-> 0,
      count       |-> 0,
      pointers    |-> <<>>,
      modified    |-> FALSE ]

-----------------------------------------------------------------------------
(* btree_modify.rs *)

\* mr_push_item that puts the record in front of the list
mr_push_item_front(key, value, result) ==
    [ result EXCEPT
        !.values      = <<KvNode(key, value)>> \o @,
        !.count       = @ + 1,
        !.node_length = @ + Len(key) + Len(value) + 5 ]

\* mr_push_item
mr_push_item(key, value, result) ==
    [ result EXCEPT
        !.values      = Append(@, KvNode(key, value)),
        !.count       = @ + 1,
        !.node_length = @ + Len(key) + Len(value) + 5 ]

\* modify_btree that takes the last pointer whenever there is one
modify_btree_ret_last(r, root_result) ==
    IF root_result.pointers # <<>>
    THEN [panic |-> FALSE,
          ret |-> root_result.pointers[Len(root_result.pointers)].pointer]
    ELSE IF root_result.modified
    THEN [panic |-> TRUE, ret |-> r]
    ELSE [panic |-> FALSE, ret |-> r]

\* modify_btree, lines 87-98: the root the driver resolves from root_result.
\* The split branch (lines 91-92) is a comment and leaves ret as it is;
\* pointers.last().unwrap() panics on an empty list.
modify_btree_ret(r, root_result) ==
    IF root_result.modified
    THEN IF root_result.count > 1 \/ root_result.pointers # <<>>
         THEN [panic |-> FALSE, ret |-> r]
         ELSE IF root_result.pointers = <<>>
              THEN [panic |-> TRUE, ret |-> r]
              ELSE [panic |-> FALSE,
                    ret |-> root_result.pointers[Len(root_result.pointers)].pointer]
    ELSE [panic |-> FALSE, ret |-> r]

Panic(msg) ==
    /\ pc' = "panic"
    /\ panic_msg' = msg

NodeKind_lenient(r, loaded) ==
    IF r # None /\ loaded = <<>> THEN "unindexable"
    ELSE IF r = None \/ loaded[1] # 0 THEN "KVNode"
    ELSE "KPNode"

\* modify_node lines 118, 158-160: how the call treats the node it loaded.
\* node_buf[0] on the empty body of a present pointer is out of bounds.
NodeKind(r, loaded) ==
    IF r # None /\ loaded = <<>> THEN "unindexable"
    ELSE IF r = None \/ loaded[1] = 1 THEN "KVNode"
    ELSE IF loaded[1] = 0 THEN "KPNode"
    ELSE "invalid"

\* modify_btree lines 84-85 and modify_node lines 108-120, 158-161:
\* the call enters modify_node at the root over the whole batch, loads the
\* node and dispatches on its type tag.
Call ==
    /\ pc = "idle"
    /\ \E S \in SUBSET Keys, r \in Roots :
         /\ Cardinality(S) <= MaxActions
         /\ \E f \in [S -> UNION { ActionsOf(k) : k \in S }] :
              /\ \A k \in S : f[k] \in ActionsOf(k)
              /\ LET ks == SortedKeys(S)
                     actions == [i \in 1..Len(ks) |-> f[ks[i]]]
                     loaded == IF r = None THEN <<>> ELSE pread_compressed(Unwrap(r).pointer)
                 IN  /\ req' = actions
                     /\ root' = r
                     /\ start' = 0
                     /\ end' = Len(actions)
                     /\ node_buf' = loaded
                     /\ cursor' = 0
                     /\ LET kindOf == NodeKind(r, loaded)
                        IN  IF kindOf = "unindexable"
                            THEN /\ Panic("index out of bounds")    \* node_buf[0]
                                 /\ local_result' = NewResult
                            ELSE IF kindOf = "KVNode"
                            THEN /\ pc' = "merge"
                                 /\ local_result' = [NewResult EXCEPT !.node_type = "KVNode"]
                                 /\ UNCHANGED panic_msg
                            ELSE IF kindOf = "KPNode"
                            THEN /\ pc' = "kp"
                                 /\ local_result' = NewResult
                                 /\ UNCHANGED panic_msg
                            ELSE /\ Panic("Invalid node type")
                                 /\ local_result' = NewResult
    /\ UNCHANGED <<ret, seq_actions>>
    /\ UNCHANGED <<rvars, kvars>>

\* modify_node lines 122-133: one pass of the loop over the node's records.
\* The cursor starts on the type tag (line 114), and the record codec is not
\* part of these sources, so what read_kv decodes there is not determined:
\* it fails (unwrap panics) or consumes some of the remaining cells.  The
\* three branches of the key comparison are empty.
MergeStep ==
    /\ pc = "merge"
    /\ cursor < Len(node_buf)
    /\ \E ok \in BOOLEAN, n \in 1..(Len(node_buf) - cursor) :
         IF ~ok
         THEN /\ Panic("read_kv unwrap")
              /\ UNCHANGED cursor
         ELSE IF start >= Len(req)
         THEN /\ Panic("index out of bounds")                       \* req.actions[start]
              /\ cursor' = cursor + n
         ELSE /\ cursor' = cursor + n
              /\ UNCHANGED <<pc, panic_msg>>
    /\ UNCHANGED <<req, root, node_buf, start, end, local_result, ret, seq_actions>>
    /\ UNCHANGED <<rvars, kvars>>

\* modify_node line 122: the loop over the node's records ends
MergeDone ==
    /\ pc = "merge"
    /\ cursor >= Len(node_buf)
    /\ pc' = "remaining"
    /\ UNCHANGED <<req, root, node_buf, cursor, start, end, local_result, ret,
                   panic_msg, seq_actions>>
    /\ UNCHANGED <<rvars, kvars>>

\* modify_node lines 134-157: one pass of the loop over the remaining actions
RemainingStep ==
    /\ pc = "remaining"
    /\ start < end
    /\ LET a == req[start + 1]
       IN  CASE a.action_type = "Remove" ->
                  /\ local_result' = [local_result EXCEPT !.modified = TRUE]
                  /\ start' = start + 1
                  /\ UNCHANGED <<pc, panic_msg>>
             [] a.action_type \in {"Insert", "FetchInsert"} ->
                  IF a.data = None
                  THEN /\ Panic("unwrap on None")
                       /\ local_result' = [local_result EXCEPT !.modified = TRUE]
                       /\ UNCHANGED start
                  ELSE /\ local_result' =
                            mr_push_item(a.key, Unwrap(a.data),
                                         [local_result EXCEPT !.modified = TRUE])
                       /\ start' = start + 1
                       /\ UNCHANGED <<pc, panic_msg>>
             [] OTHER ->
                  /\ start' = start + 1
                  /\ UNCHANGED <<pc, panic_msg, local_result>>
    /\ UNCHANGED <<req, root, node_buf, cursor, end, ret, seq_actions>>
    /\ UNCHANGED <<rvars, kvars>>

\* modify_node line 163: todo!() ends every call that got this far
Todo ==
    /\ \/ pc = "remaining" /\ start >= end
       \/ pc = "kp"
    /\ Panic("not yet implemented")
    /\ UNCHANGED <<req, root, node_buf, cursor, start, end, local_result, ret, seq_actions>>
    /\ UNCHANGED <<rvars, kvars>>

\* modify_btree lines 87-98: the driver resolves the new root from root_result
Resolve ==
    /\ pc = "resolve"
    /\ LET o == modify_btree_ret(root, local_result)
       IN  IF o.panic
           THEN /\ Panic("unwrap on None")
                /\ UNCHANGED ret
           ELSE /\ pc' = "returned"
                /\ ret' = o.ret
                /\ UNCHANGED panic_msg
    /\ UNCHANGED <<req, root, node_buf, cursor, start, end, local_result, seq_actions>>
    /\ UNCHANGED <<rvars, kvars>>

InitB ==
    /\ pc = "idle"
    /\ req = <<>>
    /\ root = None
    /\ node_buf = <<>>
    /\ cursor = 0
    /\ start = 0
    /\ end = 0
    /\ local_result = NewResult
    /\ ret = None
    /\ panic_msg = ""
    /\ seq_actions = <<>>

\* No chunk read is running
InitR ==
    /\ file = <<>>
    /\ kind = "bin"
    /\ max_header_size = None
    /\ pos = 0
    /\ info = <<>>
    /\ buf = <<>>
    /\ off = 0
    /\ short = FALSE
    /\ chunk_len = 0
    /\ crc32 = <<0, 0>>
    /\ rpc = "idle"
    /\ rmsg = ""
    /\ rret = <<>>
    /\ chunk = [body |-> <<>>, pad |-> 0, at |-> 0, damage |-> "none", index |-> 0,
                marker |-> FALSE]

\* No store is being constructed
InitK ==
    /\ config = [max_vbuckets |-> 1, max_shards |-> 1, shard_id |-> 0]
    /\ dir = {}
    /\ found = {}
    /\ order = <<>>
    /\ keys_left = {}
    /\ db_file_rev_map = <<>>
    /\ cached_vb_states = <<>>
    /\ opened = {}
    /\ kpc = "idle"
    /\ kmsg = ""

Init == InitB /\ InitR /\ InitK

Next == Call \/ MergeStep \/ MergeDone \/ RemainingStep \/ Todo

Spec == Init /\ [][Next]_vars

-----------------------------------------------------------------------------
(* The tree driver on its own: modify_btree lines 87-98 over the root       *)
(* results the CouchfileModifyResult type holds                             *)

\* Flushed pointers of a result: Node entries carrying a child pointer
PointerNodes ==
    { KpNode(<<3>>, Some(NodePointer(10, <<10>>))),
      KpNode(<<4>>, Some(NodePointer(60, <<60>>))) }

PendingValues == { <<>>, <<KvNode(<<1>>, <<7>>)>> }

RootResults ==
    { [ node_type   |-> "KVNode",
        values      |-> v,
        node_length |-> IF v = <<>> THEN 0 ELSE 7,
        count       |-> c,
        pointers    |-> p,
        modified    |-> m ] :
      v \in PendingValues, c \in 0..MaxCount, m \in BOOLEAN,
      p \in UNION { [1..n -> PointerNodes] : n \in 0..MaxPointers } }

InitDriver ==
    /\ pc = "resolve"
    /\ root \in Roots
    /\ local_result \in { r \in RootResults : r.count >= Len(r.values) }
    /\ req = <<>>
    /\ node_buf = <<>>
    /\ cursor = 0
    /\ start = 0
    /\ end = 0
    /\ ret = None
    /\ panic_msg = ""
    /\ seq_actions = <<>>
    /\ InitR
    /\ InitK

NextDriver == Resolve

SpecDriver == InitDriver /\ [][NextDriver]_vars

-----------------------------------------------------------------------------
(* file_read.rs *)

\* crate::constants::COUCH_BLOCK_SIZE, scaled down from 4096 so that a chunk
\* of a few bytes spans several blocks
COUCH_BLOCK_SIZE == 4

MaxBody == 3         \* longest chunk body written to the file
MaxPad == 3          \* most payload bytes lying before the chunk

Min(a, b) == IF a < b THEN a ELSE b

Zeros(n) == [i \in 1..n |-> 0]

\* One bit, of weight w, of the exclusive or of a and b
XorBit(a, b, w) == (((a \div w) + (b \div w)) % 2) * w

\* Bitwise exclusive or of two 16-bit numbers
Xor16(a, b) ==
    XorBit(a, b, 1) + XorBit(a, b, 2) + XorBit(a, b, 4) + XorBit(a, b, 8)
    + XorBit(a, b, 16) + XorBit(a, b, 32) + XorBit(a, b, 64) + XorBit(a, b, 128)
    + XorBit(a, b, 256) + XorBit(a, b, 512) + XorBit(a, b, 1024) + XorBit(a, b, 2048)
    + XorBit(a, b, 4096) + XorBit(a, b, 8192) + XorBit(a, b, 16384) + XorBit(a, b, 32768)

\* One bit of the reflected CRC-32C division (polynomial 0x82F63B78); the
\* 32-bit register is kept as <<high 16 bits, low 16 bits>>
CrcShift(c) ==
    LET hi == c[1] \div 2
        lo == (c[2] \div 2) + (c[1] % 2) * 32768
    IN  IF c[2] % 2 = 1 THEN <<Xor16(hi, 33526), Xor16(lo, 15224)>> ELSE <<hi, lo>>

\* The eight bits of one byte
CrcByte(c, b) ==
    CrcShift(CrcShift(CrcShift(CrcShift(CrcShift(CrcShift(CrcShift(CrcShift(
        <<c[1], Xor16(c[2], b)>>))))))))

RECURSIVE CrcUpdate(_, _)
CrcUpdate(c, bytes) ==
    IF bytes = <<>> THEN c
    ELSE CrcUpdate(CrcByte(c, bytes[1]), Tail(bytes))

\* crc32c::crc32c
crc32c(bytes) ==
    LET c == CrcUpdate(<<65535, 65535>>, bytes) IN <<65535 - c[1], 65535 - c[2]>>

\* assert_eq!(crc32, crc32_calc) that lets every body pass
CrcEq_skipped(stored, calc) == TRUE

\* pread_bin_internal line 46: assert_eq!(crc32, crc32_calc)
CrcEq(stored, calc) == stored = calc

\* Little-endian value of a byte string
RECURSIVE LittleEndian(_)
LittleEndian(bytes) ==
    IF bytes = <<>> THEN 0 ELSE bytes[1] + 256 * LittleEndian(Tail(bytes))

DecodeError == [ok |-> FALSE, data |-> <<>>]

\* The varint that opens a raw Snappy stream: [ok, value, next]
RECURSIVE Varint(_, _, _)
Varint(input, i, weight) ==
    IF i > Len(input) \/ i > 5 \/ (i = 5 /\ input[i] > 15)
    THEN [ok |-> FALSE, value |-> 0, next |-> i]
    ELSE IF input[i] < 128
    THEN [ok |-> TRUE, value |-> input[i] * weight, next |-> i + 1]
    ELSE LET rest == Varint(input, i + 1, 1)
         IN  IF ~rest.ok \/ rest.value >= 16777216 \/ (i = 1 /\ rest.value >= 8388608)
             THEN [ok |-> FALSE, value |-> 0, next |-> i]
             ELSE [ok |-> TRUE,
                   value |-> ((input[i] - 128) + 128 * rest.value) * weight,
                   next |-> rest.next]

\* A Snappy copy element: len bytes from offset bytes back in the output
RECURSIVE CopyBack(_, _, _)
CopyBack(out, offset, len) ==
    IF len = 0 THEN out
    ELSE CopyBack(Append(out, out[Len(out) - offset + 1]), offset, len - 1)

\* The elements of a raw Snappy stream from input[i] on, appended to out,
\* for a declared uncompressed length of n bytes
RECURSIVE Elements(_, _, _, _)
Elements(input, i, out, n) ==
    IF i > Len(input)
    THEN IF Len(out) = n THEN [ok |-> TRUE, data |-> out] ELSE DecodeError
    ELSE
    LET tag == input[i]
        t == tag % 4
        v == tag \div 4
    IN  IF t = 0
        THEN LET extra == IF v < 60 THEN 0 ELSE v - 59
             IN  IF i + extra > Len(input) THEN DecodeError
                 ELSE IF extra = 4 /\ input[i + 4] >= 64 THEN DecodeError
                 ELSE LET len == IF extra = 0 THEN v + 1
                                 ELSE LittleEndian(SubSeq(input, i + 1, i + extra)) + 1
                          j == i + 1 + extra
                      IN  IF j + len - 1 > Len(input) \/ Len(out) + len > n
                          THEN DecodeError
                          ELSE Elements(input, j + len,
                                        out \o SubSeq(input, j, j + len - 1), n)
        ELSE LET width == IF t = 1 THEN 1 ELSE IF t = 2 THEN 2 ELSE 4
                 len == IF t = 1 THEN 4 + (v % 8) ELSE 1 + v
             IN  IF i + width > Len(input) THEN DecodeError
                 ELSE IF width = 4 /\ input[i + 4] >= 64 THEN DecodeError
                 ELSE LET offset == IF t = 1
                                    THEN (tag \div 32) * 256 + input[i + 1]
                                    ELSE LittleEndian(SubSeq(input, i + 1, i + width))
                      IN  IF offset = 0 \/ offset > Len(out) \/ Len(out) + len > n
                          THEN DecodeError
                          ELSE Elements(input, i + 1 + width,
                                        CopyBack(out, offset, len), n)

\* snap::raw::Decoder::decompress_vec
decompress_vec(input) ==
    IF input = <<>> THEN DecodeError
    ELSE LET hdr == Varint(input, 1, 1)
         IN  IF ~hdr.ok THEN DecodeError
             ELSE Elements(input, hdr.next, <<>>, hdr.value)

\* read_skipping_prefixes lines 61-63 and 82-84: step over a block marker
SkipPrefix_never(p) == p

SkipPrefix(p) == IF p % COUCH_BLOCK_SIZE = 0 THEN p + 1 ELSE p

\* read_skipping_prefixes lines 66-69: the size asked of one physical read
ReadSize(p, remaining) == Min(COUCH_BLOCK_SIZE - (p % COUCH_BLOCK_SIZE), remaining)

\* file.seek(pos); file.read(..): the bytes the store still holds at p
Avail(p) == IF p >= Len(file) THEN 0 ELSE Len(file) - p

\* file.read into target[o..]: got bytes of the file from p on
Fill(target, o, p, got) ==
    [i \in 1..Len(target) |->
        IF o < i /\ i <= o + got THEN file[p + (i - o)] ELSE target[i]]

RPanic(msg) ==
    /\ rpc' = "panic"
    /\ rmsg' = msg

\* pread_bin, pread_compressed, pread_header up to the first
\* read_skipping_prefixes (lines 8-9, 19-20, 51-57, 23-26, 61-63)
Begin ==
    /\ rpc = "start"
    /\ IF kind = "header" /\ max_header_size = None
       THEN /\ RPanic("max_header_size is None")
            /\ UNCHANGED <<pos, info, off, short>>
       ELSE /\ pos' = SkipPrefix(IF kind = "header" THEN pos + 1 ELSE pos)
            /\ info' = Zeros(8)
            /\ off' = 0
            /\ short' = FALSE
            /\ rpc' = "info"
            /\ UNCHANGED rmsg
    /\ UNCHANGED <<file, kind, max_header_size, buf, chunk_len, crc32, rret, chunk>>
    /\ UNCHANGED <<bvars, kvars>>

\* read_skipping_prefixes lines 65-85 on info: one physical read, which may
\* return fewer bytes than asked, or none at the end of the store
ReadInfoStep ==
    /\ rpc = "info"
    /\ off < Len(info)
    /\ ~short
    /\ IF Avail(pos) = 0
       THEN /\ short' = TRUE
            /\ UNCHANGED <<pos, info, off>>
       ELSE \E got \in 1..Min(ReadSize(pos, Len(info) - off), Avail(pos)) :
              /\ info' = Fill(info, off, pos, got)
              /\ pos' = SkipPrefix(pos + got)
              /\ off' = off + got
              /\ UNCHANGED short
    /\ UNCHANGED <<file, kind, max_header_size, buf, chunk_len, crc32, rpc, rmsg, rret, chunk>>
    /\ UNCHANGED <<bvars, kvars>>

HeaderTooLong_after(len, max) == len - 4 > max

\* pread_bin_internal line 34: assert!(chunk_len as usize <= max_header_size),
\* on the length as decoded, before line 35 subtracts 4
HeaderTooLong(len, max) == len > max

\* pread_bin_internal lines 28-41 and read_skipping_prefixes lines 61-63:
\* decode the prefix, bound and shorten a header's length, allocate the body.
\* chunk_len -= 4 on a u32 below 4 panics in a build with overflow checks and
\* wraps in one without; the wrapped length (2^32 + chunk_len) is kept as
\* the negative chunk_len, and the read is not followed further.
Decode ==
    /\ rpc = "info"
    /\ off = Len(info) \/ short
    /\ LET len == (info[1] % 128) * 16777216 + info[2] * 65536 + info[3] * 256 + info[4]
           crc == <<info[5] * 256 + info[6], info[7] * 256 + info[8]>>
           body_len == IF max_header_size = None THEN len ELSE len - 4
       IN  /\ crc32' = crc
           /\ IF max_header_size # None /\ HeaderTooLong(len, Unwrap(max_header_size))
              THEN /\ RPanic("assertion failed: chunk_len <= max_header_size")
                   /\ chunk_len' = len
                   /\ UNCHANGED <<buf, off, short, pos>>
              ELSE IF body_len < 0
              THEN /\ \/ /\ RPanic("attempt to subtract with overflow")
                         /\ chunk_len' = len
                      \/ /\ rpc' = "wrapped"
                         /\ chunk_len' = body_len
                         /\ UNCHANGED rmsg
                   /\ UNCHANGED <<buf, off, short, pos>>
              ELSE /\ chunk_len' = body_len
                   /\ buf' = Zeros(body_len)
                   /\ off' = 0
                   /\ short' = FALSE
                   /\ pos' = SkipPrefix(pos)
                   /\ rpc' = "body"
                   /\ UNCHANGED rmsg
    /\ UNCHANGED <<file, kind, max_header_size, info, rret, chunk>>
    /\ UNCHANGED <<bvars, kvars>>

\* read_skipping_prefixes lines 65-85 on buf: one physical read
ReadBodyStep ==
    /\ rpc = "body"
    /\ off < Len(buf)
    /\ ~short
    /\ IF Avail(pos) = 0
       THEN /\ short' = TRUE
            /\ UNCHANGED <<pos, buf, off>>
       ELSE \E got \in 1..Min(ReadSize(pos, Len(buf) - off), Avail(pos)) :
              /\ buf' = Fill(buf, off, pos, got)
              /\ pos' = SkipPrefix(pos + got)
              /\ off' = off + got
              /\ UNCHANGED short
    /\ UNCHANGED <<file, kind, max_header_size, info, chunk_len, crc32, rpc, rmsg, rret, chunk>>
    /\ UNCHANGED <<bvars, kvars>>

\* pread_bin_internal lines 43-48 and pread_compressed lines 11-16: check
\* the CRC of the buffer, decompress it for pread_compressed, return
Finish ==
    /\ rpc = "body"
    /\ off = Len(buf) \/ short
    /\ IF ~CrcEq(crc32, crc32c(buf))
       THEN /\ RPanic("assertion failed: crc32 == crc32_calc")
            /\ UNCHANGED rret
       ELSE IF kind = "compressed"
       THEN LET d == decompress_vec(buf)
            IN  IF d.ok
                THEN /\ rret' = d.data
                     /\ rpc' = "returned"
                     /\ UNCHANGED rmsg
                ELSE /\ RPanic("decompress_vec unwrap")
                     /\ UNCHANGED rret
       ELSE /\ rret' = buf
            /\ rpc' = "returned"
            /\ UNCHANGED rmsg
    /\ UNCHANGED <<file, kind, max_header_size, pos, info, buf, off, short,
                   chunk_len, crc32, chunk>>
    /\ UNCHANGED <<bvars, kvars>>

(* The files a chunk read meets *)

\* Physical offset of the k-th payload byte of the file (k from 0): every
\* block opens with one marker byte
PhysOf(k) == (k \div (COUCH_BLOCK_SIZE - 1)) * COUCH_BLOCK_SIZE + 1 + (k % (COUCH_BLOCK_SIZE - 1))

\* The bytes of the file that hold the payload, a marker opening every block
RECURSIVE Lay(_, _, _)
Lay(p, payload, marker) ==
    IF payload = <<>> THEN <<>>
    ELSE IF p % COUCH_BLOCK_SIZE = 0
    THEN <<marker>> \o Lay(p + 1, payload, marker)
    ELSE <<payload[1]>> \o Lay(p + 1, Tail(payload), marker)

BodyBytes == { 0, 7 }

RECURSIVE BytesOfLen(_)
BytesOfLen(n) ==
    IF n = 0 THEN { <<>> }
    ELSE { Append(b, x) : b \in BytesOfLen(n - 1), x \in BodyBytes }

Bodies ==
    UNION { BytesOfLen(n) : n \in 0..MaxBody }
    \cup { <<1, 0, 7>>, <<2, 0, 7, 1>> }

FlipBytes == { 0, 1, 7 }

\* A chunk as it is written: length (with the format flag in its top bit; a
\* header's length counts the CRC field), CRC32C of the body, body
ChunkBytes(body, flag, k) ==
    LET c == crc32c(body)
        n == IF k = "header" THEN Len(body) + 4 ELSE Len(body)
    IN  <<flag, 0, 0, n, c[1] \div 256, c[1] % 256, c[2] \div 256, c[2] % 256>> \o body

\* The file: pad payload bytes, the chunk, one more payload byte
WrittenFile(body, flag, k, pad) ==
    Lay(0, [i \in 1..pad |-> 9] \o ChunkBytes(body, flag, k) \o <<9>>,
        IF k = "header" THEN 1 ELSE 0)

\* The three high bytes of the length field keep their value, so that the
\* body buffer stays small
Damageable(pad) == { i \in 1..64 : i > PhysOf(pad) /\ \A j \in 0..2 : i # PhysOf(pad + j) + 1 }

InitRead ==
    /\ InitB
    /\ InitK
    /\ \E body \in Bodies, flag \in { 0, 128 }, pad \in 0..MaxPad,
          k \in { "bin", "compressed", "header" },
          m \in { None, Some(4), Some(6) },
          dmg \in { "none", "flip", "cut" }, marker \in BOOLEAN :
         LET written == WrittenFile(body, flag, k, pad)
             at == PhysOf(pad)
         IN  /\ marker => (at - 1) % COUCH_BLOCK_SIZE = 0
             /\ k = "header" => marker
             /\ k # "header" => m = None
             /\ kind = k
             /\ max_header_size = m
             /\ pos = IF marker THEN at - 1 ELSE at
             /\ \E i \in 0..Len(written), v \in FlipBytes :
                  /\ \/ /\ dmg = "none"
                        /\ i = 0
                        /\ v = 0
                        /\ file = written
                     \/ /\ dmg = "flip"
                        /\ i \in Damageable(pad)
                        /\ v # written[i]
                        /\ file = [written EXCEPT ![i] = v]
                     \/ /\ dmg = "cut"
                        /\ i >= at
                        /\ i < Len(written)
                        /\ v = 0
                        /\ file = SubSeq(written, 1, i)
                  /\ chunk = [body |-> body, pad |-> pad, at |-> at, damage |-> dmg, index |-> i,
                              marker |-> marker]
    /\ info = <<>>
    /\ buf = <<>>
    /\ off = 0
    /\ short = FALSE
    /\ chunk_len = 0
    /\ crc32 = <<0, 0>>
    /\ rpc = "start"
    /\ rmsg = ""
    /\ rret = <<>>

NextRead == Begin \/ ReadInfoStep \/ Decode \/ ReadBodyStep \/ Finish

SpecRead == InitRead /\ [][NextRead]_vars

-----------------------------------------------------------------------------
(* kv_store.rs: CouchKVStore::new over a data directory *)

MaxVbuckets == 2     \* largest max_vbuckets; vbucket ids on disk go one beyond
MaxShards == 2       \* largest max_shards
MaxRev == 3          \* highest file revision on disk
MaxFiles == 3        \* most vbucket files in the directory

\* A file name: "<vb>.couch.<rev>" (kind "vb"), the same with ".compact"
\* appended (compact), "master.couch.<rev>" (kind "master"), or a name holding
\* ".couch." that splits into more than three parts, as "<vb>.couch.<rev>.bak"
\* (kind "odd")
FileName(k, vb, rev, compact) == [kind |-> k, vb |-> vb, rev |-> rev, compact |-> compact]

\* get_db_file_name lines 229-231
get_db_file_name(vbid, rev) == FileName("vb", vbid, rev, FALSE)

\* get_cache_size lines 18-20: ceil(max_vbuckets / max_shards)
get_cache_size(c) == (c.max_vbuckets + c.max_shards - 1) \div c.max_shards

\* get_cache_slot lines 116-118
get_cache_slot(vbid) == vbid \div config.max_shards

\* discover_db_files lines 210-221: names holding ".couch." and not ending
\* in ".compact"
discover_db_files(d) == { n \in d : ~n.compact }

\* get_vbucket_revision lines 133-144: the file belongs to this shard
Accepted(vbid) ==
    \/ vbid % config.max_shards = config.shard_id
    \/ vbid = ((config.max_vbuckets \div config.max_shards) * config.max_shards)
                + config.shard_id

\* get_vbucket_revision lines 120-149 on names that split into three parts
get_vbucket_revision(names) ==
    { <<n.vb, n.rev>> : n \in { m \in names : m.kind = "vb" /\ Accepted(m.vb) } }

NewerRevision_any(current, revision) == current # revision

\* populate_rev_map_and_remove_stale_files lines 84-91: the visited revision
\* replaces the one in the map
NewerRevision(current, revision) == current < revision

StaleRevision_visited(current, revision) == revision

\* populate_rev_map_and_remove_stale_files lines 84-99: the revision of the
\* file taken for stale when current differs from the visited revision
StaleRevision(current, revision) ==
    IF current < revision THEN current ELSE revision

KPanic(msg) ==
    /\ kpc' = "panic"
    /\ kmsg' = msg

VbidsOf(pairs) == { p[1] : p \in pairs }

Pending == found \ { order[i] : i \in DOMAIN order }

\* new lines 33-41 and populate_rev_map_and_remove_stale_files line 79
KvNew ==
    /\ kpc = "start"
    /\ db_file_rev_map' = [i \in 1..get_cache_size(config) |-> 0]
    /\ cached_vb_states' = [i \in 1..get_cache_size(config) |-> None]
    /\ LET names == discover_db_files(dir)
       IN  IF \E n \in names : n.kind = "odd"
           THEN /\ KPanic("assertion failed: parts.len() == 3")
                /\ UNCHANGED found
           ELSE /\ found' = get_vbucket_revision(names)
                /\ kpc' = "populate"
                /\ UNCHANGED kmsg
    /\ UNCHANGED <<config, dir, order, keys_left, opened>>
    /\ UNCHANGED <<bvars, rvars>>

\* populate_rev_map_and_remove_stale_files lines 81-105: one pass of the inner
\* loop.  The map and its sets are hashed, so the vbuckets come in any order
\* and so do the revisions of one vbucket.
PopulateVisit ==
    /\ kpc = "populate"
    /\ \E p \in Pending :
         /\ (order # <<>> /\ order[Len(order)][1] \in VbidsOf(Pending))
               => p[1] = order[Len(order)][1]
         /\ order' = Append(order, p)
         /\ LET vbid == p[1]
                revision == p[2]
                slot == get_cache_slot(vbid)
            IN  IF slot >= Len(db_file_rev_map)
                THEN /\ KPanic("index out of bounds")               \* get_db_revision
                     /\ UNCHANGED <<db_file_rev_map, dir>>
                ELSE LET current == db_file_rev_map[slot + 1]
                     IN  /\ db_file_rev_map' =
                              IF NewerRevision(current, revision)
                              THEN [db_file_rev_map EXCEPT ![slot + 1] = revision]
                              ELSE db_file_rev_map
                         /\ dir' =
                              IF current = revision THEN dir
                              ELSE dir \ { get_db_file_name(vbid, StaleRevision(current, revision)) }
                         /\ UNCHANGED <<kpc, kmsg>>
    /\ UNCHANGED <<config, found, keys_left, cached_vb_states, opened>>
    /\ UNCHANGED <<bvars, rvars>>

\* populate_rev_map_and_remove_stale_files lines 81, 108 and new line 48
PopulateDone ==
    /\ kpc = "populate"
    /\ Pending = {}
    /\ kpc' = "compact"
    /\ keys_left' = VbidsOf(found)
    /\ UNCHANGED <<config, dir, found, order, db_file_rev_map, cached_vb_states,
                   opened, kmsg>>
    /\ UNCHANGED <<bvars, rvars>>

\* new lines 48-50 and maybe_remove_compact_file lines 156-163
CompactStep ==
    /\ kpc = "compact"
    /\ \E vbid \in keys_left :
         /\ keys_left' = keys_left \ { vbid }
         /\ LET slot == get_cache_slot(vbid)
            IN  IF slot >= Len(db_file_rev_map)
                THEN /\ KPanic("index out of bounds")
                     /\ UNCHANGED dir
                ELSE /\ dir' = dir \ { FileName("vb", vbid, db_file_rev_map[slot + 1], TRUE) }
                     /\ UNCHANGED <<kpc, kmsg>>
    /\ UNCHANGED <<config, found, order, db_file_rev_map, cached_vb_states, opened>>
    /\ UNCHANGED <<bvars, rvars>>

\* new lines 48, 53 and initialise line 59
CompactDone ==
    /\ kpc = "compact"
    /\ keys_left = {}
    /\ kpc' = "initialise"
    /\ keys_left' = VbidsOf(found)
    /\ UNCHANGED <<config, dir, found, order, db_file_rev_map, cached_vb_states,
                   opened, kmsg>>
    /\ UNCHANGED <<bvars, rvars>>

\* initialise lines 59-66, open_db lines 165-170 and
\* read_vb_state_and_update_cache lines 69-76: one pass of the loop.  Db is
\* not part of these sources: opening a missing file is taken to fail, and
\* what read_vb_state finds in an opened file is not determined, it unwraps
\* the local document or panics.
InitialiseStep ==
    /\ kpc = "initialise"
    /\ \E vbid \in keys_left, readable \in BOOLEAN :
         /\ keys_left' = keys_left \ { vbid }
         /\ LET slot == get_cache_slot(vbid)
            IN  IF slot >= Len(db_file_rev_map)
                THEN /\ KPanic("index out of bounds")
                     /\ UNCHANGED <<opened, cached_vb_states>>
                ELSE LET file_name == get_db_file_name(vbid, db_file_rev_map[slot + 1])
                     IN  /\ opened' = opened \cup { file_name }
                         /\ IF file_name \notin dir
                            THEN /\ KPanic("Db::open")
                                 /\ UNCHANGED cached_vb_states
                            ELSE IF ~readable
                            THEN /\ KPanic("read_vb_state unwrap")
                                 /\ UNCHANGED cached_vb_states
                            ELSE /\ cached_vb_states' =
                                      [cached_vb_states EXCEPT ![slot + 1] = Some(vbid)]
                                 /\ UNCHANGED <<kpc, kmsg>>
    /\ UNCHANGED <<config, dir, found, order, db_file_rev_map>>
    /\ UNCHANGED <<bvars, rvars>>

\* initialise line 66 and new line 55
InitialiseDone ==
    /\ kpc = "initialise"
    /\ keys_left = {}
    /\ kpc' = "done"
    /\ UNCHANGED <<config, dir, found, order, keys_left, db_file_rev_map,
                   cached_vb_states, opened, kmsg>>
    /\ UNCHANGED <<bvars, rvars>>

\* The configurations: at least one shard, the shard id one of them
Configs ==
    { [max_vbuckets |-> v, max_shards |-> s, shard_id |-> i] :
        v \in 1..MaxVbuckets, s \in 1..MaxShards, i \in 0..(MaxShards - 1) }

\* The vbucket files a directory may hold
VbFiles ==
    { get_db_file_name(vb, rev) : vb \in 0..(MaxVbuckets + 1), rev \in 0..MaxRev }

\* The other files a directory may hold
OtherFiles ==
    { FileName("master", 0, 1, FALSE), FileName("odd", 0, 1, FALSE) }
      \cup { FileName("vb", 0, rev, TRUE) : rev \in 0..MaxRev }

InitKv ==
    /\ InitB
    /\ InitR
    /\ config \in { c \in Configs : c.shard_id < c.max_shards }
    /\ \E fs \in SUBSET VbFiles, os \in SUBSET OtherFiles :
         /\ Cardinality(fs) <= MaxFiles
         /\ Cardinality(os) <= 1
         /\ dir = fs \cup os
    /\ found = {}
    /\ order = <<>>
    /\ keys_left = {}
    /\ db_file_rev_map = <<>>
    /\ cached_vb_states = <<>>
    /\ opened = {}
    /\ kpc = "start"
    /\ kmsg = ""

NextKv ==
    KvNew \/ PopulateVisit \/ PopulateDone \/ CompactStep \/ CompactDone
      \/ InitialiseStep \/ InitialiseDone

SpecKv == InitKv /\ [][NextKv]_vars

-----------------------------------------------------------------------------
(* What the claims speak of *)

Range(f) == { f[i] : i \in DOMAIN f }

Ended == pc \in { "returned", "panic" }

\* The call ended because the record codec rejected the node body
CodecFailed == pc = "panic" /\ panic_msg = "read_kv unwrap"

\* Roots whose chunks hold well-formed nodes
TreeRoots == { r \in Roots : r = None \/ Unwrap(r).pointer \in { 10, 20, 30, 60 } }

RECURSIVE Concat(_)
Concat(ss) == IF ss = <<>> THEN <<>> ELSE ss[1] \o Concat(Tail(ss))

\* In-order traversal of the tree under an optional pointer: <<key, value>> pairs
RECURSIVE Traverse(_)
Traverse(r) ==
    IF r = None THEN <<>>
    ELSE LET b == pread_compressed(Unwrap(r).pointer)
         IN  IF b = <<>> THEN <<>>
             ELSE IF b[1] = 1
             THEN [i \in 1..(Len(b) - 1) |-> <<b[i + 1].key, b[i + 1].data>>]
             ELSE Concat([i \in 1..(Len(b) - 1) |-> Traverse(b[i + 1].pointer)])

\* Number of node levels under an optional pointer
RECURSIVE Height(_)
Height(r) ==
    IF r = None THEN 0
    ELSE LET b == pread_compressed(Unwrap(r).pointer)
         IN  IF b = <<>> \/ b[1] = 1 \/ Len(b) = 1 THEN 1
             ELSE 1 + Height(b[2].pointer)

TreeKeys(r) == { kv[1] : kv \in Range(Traverse(r)) }

IsInsert(a) == a.action_type \in { "Insert", "FetchInsert" }

InsertedRecords(actions) ==
    { <<actions[i].key, Unwrap(actions[i].data)>> :
        i \in { j \in DOMAIN actions : IsInsert(actions[j]) } }

\* The records a batch leaves of a tree's records
Expected(old, actions) ==
    LET touched == { actions[i].key :
                       i \in { j \in DOMAIN actions :
                                 actions[j].action_type # "Fetch" } }
    IN  { kv \in old : kv[1] \notin touched } \cup InsertedRecords(actions)

StrictlyAscending(ks) ==
    \A i \in 1..(Len(ks) - 1) : KeyLess(ks[i], ks[i + 1])

AllOfType(actions, types) ==
    /\ actions # <<>>
    /\ \A i \in DOMAIN actions : actions[i].action_type \in types

\* C1: when a modify_btree call on a tree has ended, it has returned a root
\* whose reachable records are the old records no Remove/Insert/FetchInsert
\* names, plus one record (key, new value) per Insert/FetchInsert.
C1_Claim ==
    (Ended /\ ~CodecFailed /\ root \in TreeRoots)
        => /\ pc = "returned"
           /\ Range(Traverse(ret)) = Expected(Range(Traverse(root)), req)

\* C2: when a call whose batch holds Insert actions only has ended, it has
\* returned a root from which a Fetch of each inserted key reads the value
\* inserted for that key.
C2_Claim ==
    (Ended /\ ~CodecFailed /\ root \in TreeRoots /\ AllOfType(req, {"Insert"}))
        => /\ pc = "returned"
           /\ \A i \in DOMAIN req :
                <<req[i].key, Unwrap(req[i].data)>> \in Range(Traverse(ret))

\* C3: a batch of Remove actions whose keys are not in the tree leaves the
\* result's modified flag false, and the call returns the root it was given.
C3_Claim ==
    (/\ root \in TreeRoots
     /\ AllOfType(req, {"Remove"})
     /\ \A i \in DOMAIN req : req[i].key \notin TreeKeys(root))
        => /\ ~local_result.modified
           /\ (Ended /\ ~CodecFailed) => (pc = "returned" /\ ret = root)

FlushDue(result) == result.modified /\ result.count > 3

\* C5: when a call that inserted into the empty tree more records than one
\* node holds has ended, it has returned a tree of height at least 2 whose
\* traversal yields exactly the inserted records, each once.
C5_Claim ==
    (Ended /\ root = None /\ AllOfType(req, {"Insert"}) /\ FlushDue(local_result))
        => /\ pc = "returned"
           /\ Height(ret) >= 2
           /\ Range(Traverse(ret)) = InsertedRecords(req)
           /\ Len(Traverse(ret)) = Len(req)

C9_Claim ==
    (Ended /\ root = None /\ \A i \in DOMAIN req : ~IsInsert(req[i]))
        => (pc = "returned" /\ ret = None)

REnded == rpc \in { "returned", "panic", "wrapped" }

\* The next n payload bytes of f from physical offset p on, as far as f
\* reaches: the bytes whose offset is no multiple of the block size
RECURSIVE Logical(_, _, _)
Logical(f, p, n) ==
    IF n = 0 \/ p >= Len(f) THEN <<>>
    ELSE IF p % COUCH_BLOCK_SIZE = 0 THEN Logical(f, p + 1, n)
    ELSE <<f[p + 1]>> \o Logical(f, p + 1, n - 1)

\* The chunk as it stands in the file: length, CRC and body
StoredPrefix == Logical(file, chunk.at, 8)

StoredLen ==
    LET b == StoredPrefix
        len == (b[1] % 128) * 16777216 + b[2] * 65536 + b[3] * 256 + b[4]
    IN  IF kind = "header" THEN len - 4 ELSE len

StoredCrc ==
    LET b == StoredPrefix IN <<b[5] * 256 + b[6], b[7] * 256 + b[8]>>

\* The file holds the whole chunk
Fits ==
    /\ Len(StoredPrefix) = 8
    /\ StoredLen >= 0
    /\ Len(Logical(file, chunk.at, 8 + StoredLen)) = 8 + StoredLen

StoredBody == SubSeq(Logical(file, chunk.at, 8 + StoredLen), 9, 8 + StoredLen)

\* The damage changed a byte of the body of the written chunk
BodyFlipped ==
    /\ chunk.damage = "flip"
    /\ \E j \in 1..Len(chunk.body) : chunk.index = PhysOf(chunk.pad + 8 + j - 1) + 1

\* C10: no chunk read returns a body whose CRC32C differs from the stored
\* one: a returned buffer checksums to the CRC decoded from the prefix; when
\* the file holds the whole chunk, a returning read has read the chunk's
\* body and CRC and they agree, and a read of a chunk whose body does not
\* checksum to its CRC ends in a panic; so does every read of a chunk one of
\* whose body bytes was changed after it was written.
C10_Corruption ==
    /\ rpc = "returned" => crc32c(buf) = crc32
    /\ (rpc = "returned" /\ Fits)
          => (buf = StoredBody /\ crc32 = StoredCrc /\ crc32c(StoredBody) = StoredCrc)
    /\ (REnded /\ Fits /\ crc32c(StoredBody) # StoredCrc) => rpc = "panic"
    /\ (REnded /\ BodyFlipped) => rpc = "panic"

\* A read of a compressed chunk that spans blocks, one of whose body bytes
\* was changed, has ended on the CRC assertion
C10_Witness ==
    /\ rpc = "panic"
    /\ rmsg = "assertion failed: crc32 == crc32_calc"
    /\ kind = "compressed"
    /\ BodyFlipped
    /\ Len(chunk.body) >= 3
    /\ off = Len(buf)

\* C11: a chunk read returns only when the store held the whole 8-byte
\* prefix and the whole declared body; a read that met the end of the store
\* before that has ended in a panic.
C11_Claim ==
    rpc = "returned" => Fits

\* The read is under way or over, with the decoded prefix whole
PrefixWhole == Len(StoredPrefix) = 8

\* C12: a read never takes a block marker for data: the bytes gathered so far
\* are the store's bytes from the start position on with the byte at every
\* multiple of the block size left out, whether the read began on a marker
\* or not; the position in use is never a marker; and the gathering stops
\* short of the buffer only when the store holds no further byte.
C12_BlockSkipping ==
    /\ rpc \in { "info", "body" } => pos % COUCH_BLOCK_SIZE # 0
    /\ rpc = "info" =>
         /\ SubSeq(info, 1, off) = Logical(file, chunk.at, off)
         /\ short => Len(Logical(file, chunk.at, 8)) = off
    /\ (rpc = "body" /\ PrefixWhole) =>
         /\ SubSeq(buf, 1, off) = SubSeq(Logical(file, chunk.at, 8 + off), 9, 8 + off)
         /\ short => Len(Logical(file, chunk.at, 8 + Len(buf))) = 8 + off
    /\ (rpc = "body" /\ ~PrefixWhole) => off = 0

\* A read that began on a block marker filled a three-byte body across
\* block boundaries
C12_Witness ==
    /\ rpc = "body"
    /\ kind = "bin"
    /\ chunk.marker
    /\ chunk.damage = "none"
    /\ off = Len(buf)
    /\ Len(buf) = 3
    /\ buf = chunk.body

\* The length field of the prefix as read, top bit masked off
DecodedLen == (info[1] % 128) * 16777216 + info[2] * 65536 + info[3] * 256 + info[4]

TooLongMsg == "assertion failed: chunk_len <= max_header_size"

FetchHits ==
    { i \in DOMAIN req :
        /\ req[i].action_type \in { "Fetch", "FetchInsert" }
        /\ req[i].key \in TreeKeys(root) }

\* C14: when a modify_btree call on a tree has ended, the context's fetch
\* hook has been invoked once for every Fetch or FetchInsert action whose
\* key the tree holds, and for no other action.
C14_Claim ==
    (Ended /\ ~CodecFailed /\ root \in TreeRoots)
        => Len(seq_actions) = Cardinality(FetchHits)

\* C15: a modify_node call that no action is routed to (start = end) reads
\* no chunk, does not index into the batch, and ends by returning the
\* original pointer with modified = FALSE.
C15_Claim ==
    (pc # "idle" /\ start = end /\ req = <<>>) =>
        /\ node_buf = <<>>
        /\ panic_msg # "index out of bounds"
        /\ Ended => (pc = "returned" /\ ret = root /\ ~local_result.modified)

\* The body loaded for a present pointer carries no valid type tag
BadTag == root # None /\ (node_buf = <<>> \/ node_buf[1] \notin { 0, 1 })

\* C16: a call works on its node as a leaf only when the pointer is absent
\* or the body's first byte is 1, and as an internal node only when the
\* first byte is 0; for a present pointer whose body is empty or carries any
\* other tag the call has panicked without treating the node as either.
C16_Dispatch ==
    pc # "idle" =>
        /\ (pc \in { "merge", "remaining" } \/ local_result.node_type = "KVNode") =>
             (root = None \/ (node_buf # <<>> /\ node_buf[1] = 1))
        /\ pc = "kp" => (root # None /\ node_buf # <<>> /\ node_buf[1] = 0)
        /\ BadTag =>
             /\ pc = "panic"
             /\ panic_msg \in { "Invalid node type", "index out of bounds" }
             /\ local_result = NewResult
             /\ cursor = 0
             /\ start = 0

\* A call on a node whose body starts with tag 2 was given actions and
\* panicked on the tag
C16_Witness ==
    /\ pc = "panic"
    /\ panic_msg = "Invalid node type"
    /\ root # None
    /\ node_buf # <<>>
    /\ node_buf[1] = 2
    /\ req # <<>>

\* C17: a header read whose decoded length is below 4 has ended in a panic
\* once the prefix is decoded; the subtraction of 4 never leaves a wrapped
\* body length.
C17_Claim ==
    (kind = "header" /\ max_header_size # None /\ rpc \notin { "start", "info" }
       /\ DecodedLen < 4)
        => rpc = "panic"

Max(S) == CHOOSE x \in S : \A y \in S : y <= x

\* The revisions get_vbucket_revision found for a vbucket, and those of them
\* the pass has visited
RevsOf(vbid) == { p[2] : p \in { q \in found : q[1] = vbid } }

VisitedRevsOf(vbid) ==
    { order[i][2] : i \in { j \in DOMAIN order : order[j][1] = vbid } }

SlotInRange(vbid) == get_cache_slot(vbid) < Len(db_file_rev_map)

MapAt(vbid) == db_file_rev_map[get_cache_slot(vbid) + 1]

PopulateOver == kpc \in { "compact", "initialise", "done" }

\* C18: during populate_rev_map_and_remove_stale_files the revision map
\* holds, for every discovered vbucket, the highest of its revisions visited
\* so far (0 before any), so the value never decreases whatever the visiting
\* order; after the pass it holds the highest revision found among the
\* vbucket's files.
C18_HighestRevision ==
    /\ \A vbid \in VbidsOf(found) :
         SlotInRange(vbid) =>
            /\ MapAt(vbid) = Max(VisitedRevsOf(vbid) \cup { 0 })
            /\ PopulateOver => MapAt(vbid) = Max(RevsOf(vbid))
    /\ PopulateOver => \A vbid \in VbidsOf(found) : SlotInRange(vbid)

\* The pass is over for a vbucket with three revisions, the highest of which
\* came first
C18_Witness ==
    /\ PopulateOver
    /\ \E vbid \in VbidsOf(found) :
         /\ Cardinality(RevsOf(vbid)) = 3
         /\ \E i \in DOMAIN order :
              /\ order[i] = <<vbid, Max(RevsOf(vbid))>>
              /\ \A j \in DOMAIN order : order[j][1] = vbid => i <= j
         /\ MapAt(vbid) = Max(RevsOf(vbid))

\* The files of a vbucket that discover_db_files lists
FilesOf(vbid) == { n \in dir : n.kind = "vb" /\ ~n.compact /\ n.vb = vbid }

\* C19: the stale-file pass never removes the file with the highest
\* discovered revision of a vbucket, whatever the visiting order; when the
\* pass is over that file is the only one left of the vbucket's files; and
\* every file open_db opens is that file and is still in the directory.
C19_LiveFileKept ==
    /\ \A vbid \in VbidsOf(found) :
         /\ get_db_file_name(vbid, Max(RevsOf(vbid))) \in dir
         /\ PopulateOver =>
              FilesOf(vbid) = { get_db_file_name(vbid, Max(RevsOf(vbid))) }
    /\ \A n \in opened :
         /\ n \in dir
         /\ n = get_db_file_name(n.vb, Max(RevsOf(n.vb)))
    /\ kmsg # "Db::open"

\* The store opened the live file of a vbucket whose highest revision was
\* visited before a lower one
C19_Witness ==
    /\ kpc = "done"
    /\ \E i, j \in DOMAIN order :
         /\ i < j
         /\ order[i][1] = order[j][1]
         /\ order[i][2] > order[j][2]
         /\ order[i][2] = Max(RevsOf(order[i][1]))
         /\ get_db_file_name(order[i][1], order[i][2]) \in opened
         /\ cached_vb_states[get_cache_slot(order[i][1]) + 1] # None

\* C20: every vbucket id get_vbucket_revision accepts has a cache slot below
\* the cache size, no indexing of the revision map or of the state cache goes
\* out of bounds, and no two accepted ids share a slot.
C20_Claim ==
    /\ \A vbid \in VbidsOf(found) : get_cache_slot(vbid) < get_cache_size(config)
    /\ kmsg # "index out of bounds"
    /\ \A v, w \in VbidsOf(found) : get_cache_slot(v) = get_cache_slot(w) => v = w
====
